---------------------------- MODULE Spec2Model ----------------------------
(***************************************************************************)
(* Model of the decode-and-deliver core of ting-reader:                    *)
(*   - the XM decryption pipeline        (xm-decryptor: decryptXM,         *)
(*     decryptAesSegment, processWasmDecryption),                          *)
(*   - the on-disk result cache          (cache-manager: saveToCache,      *)
(*     scheduleCleanup, clearOldCache, deleteChapterCache),                *)
(*   - the delivery layer                (index.js: GET /api/stream/:id,   *)
(*     preloadChapter, POST /api/cache/:id).                               *)
(*                                                                         *)
(* Sizes are counted in MiB (TLC integers are 32 bit, 2 GiB in bytes does  *)
(* not fit); the code compares sums of sizes with the cap only by > and <= *)
(* so the unit does not change which branch is taken.                      *)
(***************************************************************************)
EXTENDS Integers, Sequences, FiniteSets, TLC

VARIABLES
    asset,          \* pipeline check: the protected asset handed to decryptXM
    pipe,           \* pipeline check: the outcome of decryptXM on asset
    wasmInstance,   \* xm-decryptor: the module-level instance (0 = null)
    instances,      \* history: module instances created so far
    calls,          \* processWasmDecryption calls: position, instance used
    memory,         \* the linear memory and globals of each module instance
    rangeReq,       \* range check: size of a remote plain file and the Range header
    rangeResp,      \* range check: what the handler answers and reads
    files,          \* cache directory: chapter id -> file (inode, body, mtime) or NoFile
    orphans,        \* unlinked inodes some task still holds open: inode -> body
    clock,          \* time stamps for mtime and inode numbers
    cleanupTimeout, \* cache-manager: the debounce timer handle (TRUE = not null)
    armed,          \* history: setTimeout callbacks armed and not yet run
    sweep,          \* the running clearOldCache call
    lastSweep,      \* history: the last clearOldCache call that returned
    unlisted,       \* history: chapters written since the last directory listing
    tasks,          \* stream requests and preload tasks, in order of creation
    db,             \* chapter ids that have a row in the chapters table
    removal         \* the removal of a book or chapter in progress, and history

vars == <<asset, pipe, wasmInstance, instances, calls, memory, rangeReq, rangeResp, files, orphans, clock, cleanupTimeout, armed, sweep, lastSweep,
          unlisted, tasks, db, removal>>

CatalogVars == <<db, removal>>

RangeVars == <<rangeReq, rangeResp>>
PipeVars == <<asset, pipe, wasmInstance, instances, calls, memory, RangeVars>>
CacheVars == <<files, orphans, clock, cleanupTimeout, armed, sweep, lastSweep, unlisted>>

Min(a, b) == IF a < b THEN a ELSE b
Max(a, b) == IF a > b THEN a ELSE b

(***************************************************************************)
(* xm-decryptor                                                            *)
(*                                                                         *)
(* AES and the WASM module are modelled by what the code observes of them: *)
(* lengths, and which call throws.  An asset is described by               *)
(*   hdr      headerSize returned by getID3Size                            *)
(*   avail    content.length - headerSize                                  *)
(*   ver      the ID3v2 minor version, buffer[3]                           *)
(*   tagSize  what line 46 parses from the node-id3 tags (0 without one)   *)
(*   tagIv    what line 47 takes from the node-id3 tags                    *)
(*   frameSize, frameIv   the content of the size frame and of the first   *)
(*            IV-bearing frame the manual scan would meet in the header    *)
(*   padOk    do the decrypted blocks end in valid PKCS#7 padding          *)
(*   padLen   the length of that padding                                   *)
(*   utf8Ok   are the decrypted blocks valid UTF-8 (padding bytes 1..16    *)
(*            are ASCII, so stripping valid padding does not change this)  *)
(*   wasmPadded, wasmRaw   what the module does with the stripped and      *)
(*            with the raw decrypted text                                  *)
(***************************************************************************)
BLOCK == 16

MaxSegBlocks == 2

\* lengths at, just above and just below each block boundary
SegLens == { BLOCK * b + o : b \in 0..MaxSegBlocks, o \in {0, 1, BLOCK - 1} }

WasmOutcomes == {"data", "empty", "allocFail", "invalid"}

\* Values of an IV field: no such tag (undefined, null), the empty string,
\* blanks only, a short text, sixteen characters of text, 32 hex digits.
Absent == "null"
Blank == "  "
Hex32 == "00112233445566778899aabbccddeeff"
IvValues == {Absent, "", Blank, "abc", "0123456789abcdeX", Hex32}

IvLen(v) ==
    IF v \in {Absent, ""} THEN 0
    ELSE IF v = Blank THEN 2
    ELSE IF v = "abc" THEN 3
    ELSE IF v = Hex32 THEN 32
    ELSE 16

\* String.prototype.trim
trim(v) == IF v = Blank THEN "" ELSE v

\* JavaScript truthiness of an IV field
Truthy(v) == v \notin {Absent, ""}

\* extractTagsManually(buffer, headerSize).iv: nothing is scanned in a header
\* of ten bytes or less; a v2.2 frame (IRC, TEN) gives its trimmed content,
\* a v2.3/v2.4 frame (TSRC, TENC, ISRC) its trimmed content if that has at
\* least 16 characters
ManualIv(a) ==
    IF a.hdr <= 10 \/ a.frameIv = Absent THEN Absent
    ELSE IF a.ver = 2 THEN trim(a.frameIv)
    ELSE IF IvLen(trim(a.frameIv)) >= 16 THEN trim(a.frameIv)
    ELSE Absent

\* extractTagsManually(buffer, headerSize).size
ManualSize(a) == IF a.hdr <= 10 THEN 0 ELSE a.frameSize

\* a faulty variant of ResolveIv that falls back to a default IV
ResolveIvDefaulting(a) ==
    IF Truthy(a.tagIv) THEN a.tagIv
    ELSE IF Truthy(ManualIv(a)) THEN ManualIv(a)
    ELSE Hex32

\* xmInfo.iv after lines 47 and 53
ResolveIv(a) == IF Truthy(a.tagIv) THEN a.tagIv ELSE ManualIv(a)

\* a faulty variant of ResolveSize without the final fallback of line 59
ResolveSizeTagsOnly(a) == IF a.tagSize = 0 THEN ManualSize(a) ELSE a.tagSize

\* xmInfo.size after lines 46, 54 and 59-61
ResolveSize(a) ==
    LET tagged == IF a.tagSize = 0 THEN ManualSize(a) ELSE a.tagSize IN
    IF tagged = 0 THEN a.avail ELSE tagged

\* What a file can hold: empty content has no tags, a header of ten bytes
\* has no frames (node-id3 reads that tag and finds it empty), and the manual
\* scan's frames lie in a longer header.  Content that does not start with
\* an ID3 header (hdr = 0) may still carry a tag node-id3 finds further on.
Wellformed(a) ==
    /\ (a.hdr + a.avail = 0 \/ a.hdr = 10) => (a.tagIv = Absent /\ a.tagSize = 0)
    /\ a.hdr <= 10 => (a.frameIv = Absent /\ a.frameSize = 0)

\* the assets of the pipeline check: size and IV come from the node-id3 tags
Assets ==
    { a \in [ hdr : {0, 64}, avail : SegLens, ver : {3}, tagSize : SegLens,
              frameSize : {0}, tagIv : {Absent, Hex32}, frameIv : {Absent},
              padOk : BOOLEAN, padLen : {1, BLOCK}, utf8Ok : BOOLEAN,
              wasmPadded : WasmOutcomes, wasmRaw : WasmOutcomes ] : Wellformed(a) }

\* the assets of the check of the tag resolution: every way the two paths
\* can give or miss the IV and the size, over a segment that decrypts
TagAssets ==
    { a \in [ hdr : {0, 10, 64}, avail : SegLens, ver : {2, 3, 4},
              tagSize : {0, BLOCK, BLOCK + 1}, frameSize : {0, BLOCK},
              tagIv : IvValues, frameIv : IvValues,
              padOk : {TRUE}, padLen : {1}, utf8Ok : {TRUE},
              wasmPadded : {"data"}, wasmRaw : {"data"} ] : Wellformed(a) }

\* one entry of the pipeline's trace: a stage that was entered, for a cipher
\* or transform call its padding mode, whether it returned, and the length of
\* what it returned
Ev(stage, mode, ok, len) == [stage |-> stage, mode |-> mode, ok |-> ok, len |-> len]

\* decipher.update(data) ++ decipher.final() with setAutoPadding(true)
CipherPadded(a, len) ==
    IF len % BLOCK # 0 \/ len = 0 \/ ~a.padOk
    THEN [ok |-> FALSE, len |-> 0, text |-> "padded"]
    ELSE [ok |-> TRUE, len |-> len - a.padLen, text |-> "padded"]

\* decipher2.update(data) ++ decipher2.final() with setAutoPadding(false)
CipherUnpaddedFinal(a, len) ==
    IF len % BLOCK # 0
    THEN [ok |-> FALSE, len |-> 0, text |-> "raw"]
    ELSE [ok |-> TRUE, len |-> len, text |-> "raw"]

\* decipher2.update(data) alone: the whole blocks, never throws
CipherUnpaddedUpdate(a, len) ==
    [ok |-> TRUE, len |-> len - (len % BLOCK), text |-> "raw"]

\* processWasmDecryption(decryptedBuffer, info): the length of the returned
\* buffer stands for "some bytes" when the module yields data
processWasmDecryption(a, plain) ==
    LET w == IF plain.text = "padded" THEN a.wasmPadded ELSE a.wasmRaw IN
    IF plain.len = 0 THEN [ok |-> TRUE, len |-> 0, ran |-> FALSE, err |-> ""]
    ELSE IF ~a.utf8Ok THEN [ok |-> FALSE, len |-> 0, ran |-> TRUE, err |-> "NotUtf8"]
    ELSE IF w = "allocFail" THEN [ok |-> FALSE, len |-> 0, ran |-> TRUE, err |-> "WasmAlloc"]
    ELSE IF w = "invalid" THEN [ok |-> FALSE, len |-> 0, ran |-> TRUE, err |-> "WasmInvalid"]
    ELSE IF w = "empty" THEN [ok |-> TRUE, len |-> 0, ran |-> TRUE, err |-> ""]
    ELSE [ok |-> TRUE, len |-> plain.len, ran |-> TRUE, err |-> ""]

\* one try block of decryptAesSegment: a cipher call, then the transform
Attempt(a, c, mode) ==
    IF ~c.ok
    THEN [ok |-> FALSE, len |-> 0, err |-> "Cipher",
          trace |-> <<Ev("cipher", mode, FALSE, 0)>>]
    ELSE LET w == processWasmDecryption(a, c) IN
         [ok |-> w.ok, len |-> w.len, err |-> w.err,
          trace |-> <<Ev("cipher", mode, TRUE, c.len),
                      Ev("transform", mode, w.ok, w.len)>>]

\* try { first } catch (e) { second }
TryCatch(first, second) ==
    IF first.ok THEN first
    ELSE [second EXCEPT !.trace = first.trace \o second.trace]

\* the branch taken when encryptedData.length === info.size
FullSegment(a, encLen) ==
    TryCatch(Attempt(a, CipherPadded(a, encLen), "padded"),
             Attempt(a, CipherUnpaddedFinal(a, encLen), "unpadded"))

\* the branch taken for a chunk shorter than info.size
ChunkSegment(a, encLen) ==
    LET dataToDecrypt == encLen - (encLen % BLOCK) IN
    IF dataToDecrypt = 0
    THEN [ok |-> TRUE, len |-> 0, err |-> "", trace |-> <<>>]
    ELSE TryCatch(Attempt(a, CipherUnpaddedFinal(a, dataToDecrypt), "unpadded"),
                  Attempt(a, CipherUnpaddedUpdate(a, dataToDecrypt), "unpadded"))

\* getIvBuffer throws on a falsy IV (line 208), inside the try block of
\* decryptAesSegment
decryptAesSegment(a, encLen, size) ==
    IF ~Truthy(ResolveIv(a))
    THEN [ok |-> FALSE, len |-> 0, err |-> "IvMissing", trace |-> <<>>]
    ELSE IF encLen = size THEN FullSegment(a, encLen) ELSE ChunkSegment(a, encLen)

Stage(name) == Ev(name, "", TRUE, 0)

\* Buffer.prototype.slice(start, end) on a buffer of total bytes, for
\* offsets that are not negative: both ends are clamped to the buffer
BufferSlice(total, start, end) ==
    [from |-> Min(start, total), to |-> Max(Min(start, total), Min(end, total))]

\* a faulty variant of TailStart that leaves the header out of the offset
TailStartWithoutHeader(a, size) == size

\* where the passed-through region starts: xmInfo.headerSize + xmInfo.size
\* (line 85)
TailStart(a, size) == a.hdr + size

decryptXM(a) ==
    LET size   == ResolveSize(a)
        iv     == ResolveIv(a)
        total  == a.hdr + a.avail
        enc    == BufferSlice(total, a.hdr, a.hdr + size)
        rest   == BufferSlice(total, TailStart(a, size), total)
        encLen == enc.to - enc.from
        tail   == rest.to - rest.from
        seg    == decryptAesSegment(a, encLen, size)
        fail(err, tr) == [ok |-> FALSE, len |-> 0, err |-> err, encLen |-> encLen,
                          segLen |-> 0, size |-> size, tail |-> 0, tailFrom |-> 0,
                          iv |-> iv, trace |-> tr]
    IN  IF a.hdr + a.avail = 0
        THEN [fail("EmptyContent", <<>>) EXCEPT !.size = 0, !.iv = Absent]
        ELSE IF ~Truthy(iv) THEN fail("NoIV", <<Stage("HEADER_PARSED")>>)
        ELSE IF encLen = 0
             THEN fail("EmptySegment",
                       <<Stage("HEADER_PARSED"), Stage("DESCRIPTOR_RESOLVED")>>)
        ELSE IF ~seg.ok
             THEN fail(seg.err,
                       <<Stage("HEADER_PARSED"), Stage("DESCRIPTOR_RESOLVED")>>
                       \o seg.trace)
        ELSE [ok |-> TRUE, len |-> seg.len + tail, err |-> "", encLen |-> encLen,
              segLen |-> seg.len, size |-> size, tail |-> tail,
              tailFrom |-> rest.from, iv |-> iv,
              trace |-> <<Stage("HEADER_PARSED"), Stage("DESCRIPTOR_RESOLVED")>>
                        \o seg.trace \o <<Stage("ASSEMBLED")>>]

MaxWasmCalls == 3       \* processWasmDecryption calls of one run

WasmCalls == 1..MaxWasmCalls

\* what a call is given: a decrypted buffer that is empty, is not UTF-8, or
\* is text
WasmInputs == {"empty", "notUtf8", "text"}

\* got: the call whose transform produced the result this call read (0 = none)
NoCall == [pc |-> "idle", input |-> "", made |-> 0, inst |-> 0, got |-> 0]

SlotSize == 16          \* bytes func_a(-16) reserves for the result pointer and length

\* The memory of one instance: the stack pointer (relative to its value at
\* instantiation), the number of buffers allocated, the call whose bytes
\* each buffer holds and the call whose result each output slot holds
\* (0 = none).
Slots == {0 - SlotSize * k : k \in 0..MaxWasmCalls}
Buffers == 1..(2 * MaxWasmCalls)
NewMemory ==
    [sp |-> 0, heap |-> 0, data |-> [b \in Buffers |-> 0], out |-> [s \in Slots |-> 0]]

NoWasm ==
    /\ wasmInstance = 0
    /\ instances = 0
    /\ calls = [i \in WasmCalls |-> NoCall]
    /\ memory = [k \in WasmCalls |-> NewMemory]

\* exports a and c: move the stack pointer by n and return it; allocate a
\* buffer and return its offset
func_a(m, n) == [m EXCEPT !.sp = @ + n]
func_c(m) == [m EXCEPT !.heap = @ + 1]

\* export g: transform the bytes at deDataOffset and store the pointer and
\* length of the result at stackPointer
func_g(m, stackPointer, deDataOffset) ==
    [m EXCEPT !.out[stackPointer] = m.data[deDataOffset]]

\* where a result is read after a result was stored at stackPointer
ResultAtPreviousSlot(stackPointer) == stackPointer + SlotSize
ResultAt(stackPointer) == stackPointer

\* lines 243-275 of call i on memory m, which run without an await: reserve
\* the output slot, allocate and fill the two input buffers, transform,
\* read the result
Transform(m, i) ==
    LET m1            == func_a(m, 0 - SlotSize)
        stackPointer  == m1.sp
        m2            == func_c(m1)
        deDataOffset  == m2.heap
        m3            == func_c(m2)
        trackIdOffset == m3.heap
        m4            == [m3 EXCEPT !.data[deDataOffset] = i, !.data[trackIdOffset] = i]
        m5            == func_g(m4, stackPointer, deDataOffset)
    IN  [mem |-> m5, got |-> m5.out[ResultAt(stackPointer)]]

\* processWasmDecryption up to its await of getWasmInstance(): the early
\* returns (lines 229-240), then getWasmInstance up to its own await (lines
\* 11-13): the instance that is set is returned, else the module is read
\* and WebAssembly.instantiate is started
WasmCall(i, input) ==
    /\ calls[i].pc = "idle"
    /\ calls' = [calls EXCEPT ![i] =
          IF input # "text" THEN [@ EXCEPT !.pc = "done", !.input = input]
          ELSE IF wasmInstance # 0
               THEN [@ EXCEPT !.pc = "run", !.input = input, !.inst = wasmInstance]
          ELSE [@ EXCEPT !.pc = "instantiating", !.input = input]]
    /\ UNCHANGED <<RangeVars, asset, pipe, wasmInstance, instances, memory, CacheVars, tasks, CatalogVars>>

\* WebAssembly.instantiate(wasmBuffer, {}) of call i resolves with a new
\* instance
WasmInstantiated(i) ==
    /\ calls[i].pc = "instantiating"
    /\ instances' = instances + 1
    /\ calls' = [calls EXCEPT ![i].pc = "resolved", ![i].made = instances + 1]
    /\ UNCHANGED <<RangeVars, asset, pipe, wasmInstance, memory, CacheVars, tasks, CatalogVars>>

\* getWasmInstance resumes (lines 14-15): wasmInstance = wasmModule.instance;
\* return wasmInstance
WasmAssign(i) ==
    /\ calls[i].pc = "resolved"
    /\ wasmInstance' = calls[i].made
    /\ calls' = [calls EXCEPT ![i].pc = "run", ![i].inst = calls[i].made]
    /\ UNCHANGED <<RangeVars, asset, pipe, instances, memory, CacheVars, tasks, CatalogVars>>

\* the rest of processWasmDecryption (lines 243-275) on the instance it got
WasmRun(i) ==
    /\ calls[i].pc = "run"
    /\ LET r == Transform(memory[calls[i].inst], i)
       IN  /\ memory' = [memory EXCEPT ![calls[i].inst] = r.mem]
           /\ calls' = [calls EXCEPT ![i].pc = "done", ![i].got = r.got]
    /\ UNCHANGED <<RangeVars, asset, pipe, wasmInstance, instances, CacheVars, tasks, CatalogVars>>

NoResult == [ok |-> FALSE, len |-> 0, err |-> "NotRun", encLen |-> 0, segLen |-> 0,
             size |-> 0, tail |-> 0, tailFrom |-> 0, iv |-> Absent, trace |-> <<>>]

(***************************************************************************)
(* The catalog (tables libraries, books, chapters).  Chapters are numbered; *)
(* a chapter's book, index, format and library are fixed attributes:       *)
(*   1  remote .xm, decodes to audio       book 1, index 1                 *)
(*   2  remote .xm, decodes to zero bytes  book 1, index 2                 *)
(*   3  remote plain file                  book 1, index 3                 *)
(*   4  remote .xm, decodes to audio       book 1, index 4                 *)
(*   5  local plain file                   book 2, index 1                 *)
(*   6  local .XM without an IV            book 2, index 2                 *)
(*   7  remote .xm, decodes to more than the size cap   book 3             *)
(*   8  remote .xm, decodes to a quarter of the size cap   book 3          *)
(*   9.. remote .xm, decodes to RegularFileMb           book 3             *)
(***************************************************************************)
MAX_FILES == 50
MAX_SIZE_BYTES == 2 * 1024          \* MiB

ExtraFiles == 1         \* files beyond MAX_FILES a cache directory may start with
NChunks == 2            \* write and read calls one file's content takes
RegularFileMb == 32     \* size of an ordinary decoded chapter
MaxTasks == 2           \* requests and preloads of one run
MaxCacheWrites == 1     \* preloads of one run of the cache alone

Specials == 1..8
NChapters == Cardinality(Specials) + MAX_FILES + ExtraFiles
Chapters == 1..NChapters
Regulars == Chapters \ Specials

BookOf(c) == IF c \in 1..4 THEN 1 ELSE IF c \in 5..6 THEN 2 ELSE 3
IndexOf(c) == IF c \in 1..4 THEN c ELSE IF c \in 5..6 THEN c - 4 ELSE c - 6
\* the extension of chapter.path
Ext(c) == IF c \in {3, 5} THEN ".mp3" ELSE IF c = 6 THEN ".XM" ELSE ".xm"

\* a faulty variant of toLowerCase that leaves the case as it is
toLowerCaseIdentity(e) == e

\* String.prototype.toLowerCase on an extension
toLowerCase(e) == IF e = ".XM" THEN ".xm" ELSE e

\* chapter.path.toLowerCase().endsWith('.xm')
IsXM(c) == toLowerCase(Ext(c)) = ".xm"
IsLocal(c) == BookOf(c) = 2

GoodAsset ==
    [ hdr |-> 64, avail |-> 2 * BLOCK, ver |-> 3, tagSize |-> 2 * BLOCK, frameSize |-> 0,
      tagIv |-> Hex32, frameIv |-> Absent, padOk |-> TRUE,
      padLen |-> 1, utf8Ok |-> TRUE, wasmPadded |-> "data", wasmRaw |-> "data" ]

\* a chunk shorter than one block, declared longer: nothing to decrypt, no tail
EmptyOutAsset == [GoodAsset EXCEPT !.avail = BLOCK - 1]

NoIvAsset == [GoodAsset EXCEPT !.tagIv = Absent]

AssetOf(c) == IF c = 2 THEN EmptyOutAsset ELSE IF c = 6 THEN NoIvAsset ELSE GoodAsset

\* MiB written by one write call of chapter c's content
ChunkMb(c) ==
    IF c = 7 THEN (MAX_SIZE_BYTES \div NChunks) + 1
    ELSE IF c = 8 THEN (MAX_SIZE_BYTES \div 4) \div NChunks
    ELSE RegularFileMb \div NChunks

\* A file's content is a sequence of chunks: i stands for the i-th chunk of
\* the audio of that chapter, 0 for a chunk of zero bytes (a hole), -i for
\* the i-th chunk of the protected bytes of an .xm source file.
FullBody == [i \in 1..NChunks |-> i]

\* the bytes of the source file at chapter.path
SourceBody(c) ==
    IF Ext(c) \in {".xm", ".XM"} THEN [i \in 1..NChunks |-> 0 - i] ELSE FullBody

\* what is written for chapter c: the decoded bytes of a chapter taken for
\* .xm (given the pipeline returned), else the source bytes
DataOf(c) ==
    IF IsXM(c)
    THEN IF decryptXM(AssetOf(c)).len = 0 THEN <<>> ELSE FullBody
    ELSE SourceBody(c)

(***************************************************************************)
(* The cache directory.                                                    *)
(***************************************************************************)
NoFile == [ino |-> 0, body |-> <<>>, mtime |-> 0]

\* fs.existsSync(getCachePath(chapterId))
isCached(c) == files[c].ino # 0

FileSize(c, f) == Len(f.body) * ChunkMb(c)

Active(t) == tasks[t].pc # "done"

Held(ino, except) ==
    \E t \in DOMAIN tasks : t # except /\ Active(t) /\ tasks[t].ino = ino

\* the content of an inode a task holds open
InodeBody(c, ino) ==
    IF files[c].ino = ino THEN files[c].body
    ELSE IF ino \in DOMAIN orphans THEN orphans[ino]
    ELSE <<>>

\* write chunk i of data at its offset: a shorter file is extended, the gap
\* reads as zeros
WriteAt(body, data, i) ==
    [j \in 1..Max(Len(body), i) |->
        IF j = i THEN data[i] ELSE IF j <= Len(body) THEN body[j] ELSE 0]

\* fsPromises.unlink(path): the name goes, an inode still open lives on
UnlinkFiles(c) == [files EXCEPT ![c] = NoFile]
UnlinkOrphans(c) ==
    IF files[c].ino # 0 /\ Held(files[c].ino, 0)
    THEN orphans @@ (files[c].ino :> files[c].body)
    ELSE orphans

\* a task closes its descriptor: an unlinked inode nobody else holds is freed
CloseOrphans(t) ==
    IF tasks[t].ino \in DOMAIN orphans /\ ~Held(tasks[t].ino, t)
    THEN [i \in DOMAIN orphans \ {tasks[t].ino} |-> orphans[i]]
    ELSE orphans

(***************************************************************************)
(* cache-manager: clearOldCache                                            *)
(***************************************************************************)
\* a faulty variant of InsertSorted that orders newest first (the comparator
\* b.mtime - a.mtime); C9 must tell it from the code's
InsertSortedNewestFirst(s, x) ==
    LET p == Cardinality({i \in 1..Len(s) : s[i].mtime >= x.mtime}) IN
    SubSeq(s, 1, p) \o <<x>> \o SubSeq(s, p + 1, Len(s))

\* x takes its place in the sorted s: after the elements the comparator
\* (a, b) => a.mtime - b.mtime does not put behind it
InsertSorted(s, x) ==
    LET p == Cardinality({i \in 1..Len(s) : s[i].mtime <= x.mtime}) IN
    SubSeq(s, 1, p) \o <<x>> \o SubSeq(s, p + 1, Len(s))

\* the sort, element by element: the first Len(sorted) elements of s are in
\* sorted, the next one is inserted
RECURSIVE SortInto(_, _)
SortInto(sorted, s) ==
    IF Len(sorted) = Len(s) THEN sorted
    ELSE SortInto(InsertSorted(sorted, s[Len(sorted) + 1]), s)

\* fileDetails.sort((a, b) => a.mtime - b.mtime): stable, oldest first
SortByMtime(s) == SortInto(<<>>, s)

\* fileDetails.reduce((sum, f) => sum + f.size, 0)
RECURSIVE SumSize(_)
SumSize(s) == IF s = <<>> THEN 0 ELSE Head(s).size + SumSize(Tail(s))

\* a faulty variant of DeletedByCount that is off by one and keeps
\* MAX_FILES + 1 files; C1 must tell it from the code's
DeletedByCountOffByOne(sorted) ==
    IF Len(sorted) > MAX_FILES + 1
    THEN SubSeq(sorted, 1, Len(sorted) - MAX_FILES - 1)
    ELSE <<>>

\* if (currentCount > MAX_FILES) fileDetails.splice(0, currentCount - MAX_FILES)
DeletedByCount(sorted) ==
    IF Len(sorted) > MAX_FILES THEN SubSeq(sorted, 1, Len(sorted) - MAX_FILES) ELSE <<>>

\* a variant of DeletedBySize that passes over a file larger than the cap
\* and keeps it; the amended C2 must tell it from the code's
RECURSIVE DeletedBySizeKeepingOversize(_, _)
DeletedBySizeKeepingOversize(rest, currentSize) ==
    IF rest = <<>> \/ currentSize <= MAX_SIZE_BYTES THEN <<>>
    ELSE IF Head(rest).size > MAX_SIZE_BYTES
         THEN DeletedBySizeKeepingOversize(Tail(rest), currentSize)
    ELSE <<Head(rest)>>
         \o DeletedBySizeKeepingOversize(Tail(rest), currentSize - Head(rest).size)

\* for (const file of fileDetails) { if (currentSize <= MAX_SIZE_BYTES) break; ... }
RECURSIVE DeletedBySize(_, _)
DeletedBySize(rest, currentSize) ==
    IF rest = <<>> \/ currentSize <= MAX_SIZE_BYTES THEN <<>>
    ELSE <<Head(rest)>> \o DeletedBySize(Tail(rest), currentSize - Head(rest).size)

\* the toDelete list clearOldCache builds from the stat results
ToDelete(fileDetails) ==
    LET sorted  == SortByMtime(fileDetails)
        byCount == DeletedByCount(sorted)
        rest    == SubSeq(sorted, Len(byCount) + 1, Len(sorted))
    IN  byCount \o DeletedBySize(rest, SumSize(rest))

IdleSweep ==
    [pc |-> "idle", list |-> <<>>, details |-> <<>>, toDelete |-> <<>>, k |-> 0,
     written |-> FALSE]

\* lastSweep: whether the last call that ended returned (done) or threw, what
\* it saw (details: the sorted stat results), chose (toDelete), and left in
\* the directory (the names and their total size), and whether a write ran
\* while it did
NoSweep == [done |-> FALSE, threw |-> FALSE, written |-> FALSE, details |-> <<>>,
            toDelete |-> <<>>, after |-> {}, afterSize |-> 0]

\* readdir returns the names in an order the file system chooses
RECURSIVE Ascending(_)
Ascending(S) ==
    IF S = {} THEN <<>>
    ELSE LET m == CHOOSE x \in S : \A y \in S : x <= y IN <<m>> \o Ascending(S \ {m})

Reverse(s) == [i \in 1..Len(s) |-> s[Len(s) + 1 - i]]

\* the setTimeout callback of scheduleCleanup starts clearOldCache, which
\* lists the directory
TimerFires ==
    /\ armed > 0
    /\ armed' = armed - 1
    /\ sweep.pc = "idle"
    /\ \E order \in {"asc", "desc"} :
        LET names == Ascending({c \in Chapters : isCached(c)}) IN
        sweep' = [IdleSweep EXCEPT !.pc = "listed",
                                   !.list = IF order = "asc" THEN names ELSE Reverse(names)]
    /\ unlisted' = {}
    /\ UNCHANGED <<PipeVars, files, orphans, clock, cleanupTimeout, lastSweep, tasks, CatalogVars>>

\* what finally { cleanupTimeout = null } leaves, after clearOldCache returned
\* (ret) or threw
SweepEnds(ret) ==
    /\ sweep' = IdleSweep
    /\ cleanupTimeout' = FALSE
    /\ lastSweep' = ret

RECURSIVE DirSize(_, _)
DirSize(dir, S) ==
    IF S = {} THEN 0
    ELSE LET c == CHOOSE x \in S : TRUE IN FileSize(c, dir[c]) + DirSize(dir, S \ {c})

Returned(details, toDelete, dir) ==
    LET names == {c \in Chapters : dir[c].ino # 0} IN
    [done |-> TRUE, threw |-> FALSE, written |-> sweep.written, details |-> details,
     toDelete |-> toDelete, after |-> names, afterSize |-> DirSize(dir, names)]

\* a stat rejected: Promise.all rejects, clearOldCache throws before it has
\* chosen or deleted anything, and the timer callback logs the error
Threw(dir) ==
    LET names == {c \in Chapters : dir[c].ino # 0} IN
    [NoSweep EXCEPT !.threw = TRUE, !.written = sweep.written, !.after = names,
                    !.afterSize = DirSize(dir, names)]

\* Promise.all(files.map(stat)), the sort and the choice of toDelete.  A
\* listed name that is gone makes stat reject: clearOldCache throws.
SweepStats ==
    /\ sweep.pc = "listed"
    /\ IF \E i \in 1..Len(sweep.list) : ~isCached(sweep.list[i])
       THEN SweepEnds(Threw(files))
       ELSE LET fileDetails ==
                    [i \in 1..Len(sweep.list) |->
                        [name  |-> sweep.list[i],
                         mtime |-> files[sweep.list[i]].mtime,
                         size  |-> FileSize(sweep.list[i], files[sweep.list[i]])]]
                toDelete == ToDelete(fileDetails)
            IN  IF toDelete = <<>>
                THEN SweepEnds(Returned(SortByMtime(fileDetails), <<>>, files))
                ELSE /\ sweep' = [sweep EXCEPT !.pc = "unlink",
                                               !.details = SortByMtime(fileDetails),
                                               !.toDelete = toDelete, !.k = 1]
                     /\ UNCHANGED <<cleanupTimeout, lastSweep>>
    /\ UNCHANGED <<PipeVars, files, orphans, clock, armed, unlisted, tasks, CatalogVars>>

\* one turn of: for (const file of toDelete) { try { await unlink } catch {} }
SweepUnlinks ==
    /\ sweep.pc = "unlink"
    /\ LET c == sweep.toDelete[sweep.k].name IN
        /\ files' = UnlinkFiles(c)
        /\ orphans' = UnlinkOrphans(c)
        /\ IF sweep.k = Len(sweep.toDelete)
           THEN SweepEnds(Returned(sweep.details, sweep.toDelete, UnlinkFiles(c)))
           ELSE /\ sweep' = [sweep EXCEPT !.k = sweep.k + 1]
                /\ UNCHANGED <<cleanupTimeout, lastSweep>>
    /\ UNCHANGED <<PipeVars, clock, armed, unlisted, tasks, CatalogVars>>

\* deleteChapterCache(chapterId), as called when a chapter is removed upstream
deleteChapterCache(c) ==
    /\ isCached(c)
    /\ files' = UnlinkFiles(c)
    /\ orphans' = UnlinkOrphans(c)
    /\ UNCHANGED <<PipeVars, clock, cleanupTimeout, armed, sweep, lastSweep, unlisted, tasks, CatalogVars>>

(***************************************************************************)
(* Removals from the catalog: DELETE /api/books/:id, DELETE                 *)
(* /api/libraries/:id and the cleanup at the end of scanLibrary.  Book 1   *)
(* and book 3 are in the remote library 1, book 2 in the local library 2.  *)
(*   pc      "idle" | "clearing": inside clearCacheForBook or before the   *)
(*           await of deleteChapterCache returns                           *)
(*   todo    the chapters whose cache file is still to be deleted          *)
(*   rows    the chapter rows deleted once the cache is cleared            *)
(*   books   history: the books whose deletion has completed               *)
(***************************************************************************)
LibraryOf(c) == IF IsLocal(c) THEN 2 ELSE 1

NoRemoval == [pc |-> "idle", todo |-> <<>>, rows |-> {}, book |-> 0, books |-> {}]

RECURSIVE SeqOf(_)
\* the rows of a SELECT, in ascending id
SeqOf(S) ==
    IF S = {} THEN <<>>
    ELSE LET m == CHOOSE x \in S : \A y \in S : x <= y IN <<m>> \o SeqOf(S \ {m})

ChaptersOfBook(b) == {c \in db : BookOf(c) = b}

\* DELETE /api/books/:id (and scanLibrary for a book that was not found) up
\* to the first await: the book is looked up and clearCacheForBook selects
\* its chapters
DeleteBookBegins(b) ==
    /\ removal.pc = "idle"
    /\ ChaptersOfBook(b) # {}
    /\ removal' = [removal EXCEPT !.pc = "clearing", !.book = b,
                                  !.todo = SeqOf(ChaptersOfBook(b)),
                                  !.rows = ChaptersOfBook(b)]
    /\ UNCHANGED <<PipeVars, CacheVars, tasks, db>>

\* scanLibrary's cleanup for a chapter that was not found, up to the await
\* of deleteChapterCache
RescanDropsChapter(c) ==
    /\ removal.pc = "idle"
    /\ c \in db
    /\ removal' = [removal EXCEPT !.pc = "clearing", !.book = 0,
                                  !.todo = <<c>>, !.rows = {c}]
    /\ UNCHANGED <<PipeVars, CacheVars, tasks, db>>

\* await deleteChapterCache(chapter.id) for the next chapter of the list
RemovalClears ==
    /\ removal.pc = "clearing"
    /\ removal.todo # <<>>
    /\ LET c == Head(removal.todo) IN
          IF isCached(c)
          THEN files' = UnlinkFiles(c) /\ orphans' = UnlinkOrphans(c)
          ELSE UNCHANGED <<files, orphans>>
    /\ removal' = [removal EXCEPT !.todo = Tail(@)]
    /\ UNCHANGED <<PipeVars, clock, cleanupTimeout, armed, sweep, lastSweep, unlisted,
                   tasks, db>>

\* the rows are deleted (DELETE FROM books cascades to chapters) and the
\* handler answers
RemovalEnds ==
    /\ removal.pc = "clearing"
    /\ removal.todo = <<>>
    /\ db' = db \ removal.rows
    /\ removal' = [NoRemoval EXCEPT
                      !.books = IF removal.book # 0 THEN removal.books \cup {removal.book}
                                ELSE removal.books]
    /\ UNCHANGED <<PipeVars, CacheVars, tasks>>

\* DELETE /api/libraries/:id: one DELETE statement, which cascades to the
\* library's books and their chapters
DeleteLibrary(l) ==
    /\ \E c \in db : LibraryOf(c) = l
    /\ db' = {c \in db : LibraryOf(c) # l}
    /\ UNCHANGED <<PipeVars, CacheVars, tasks, removal>>

(***************************************************************************)
(* index.js: GET /api/stream/:chapterId, preloadChapter, POST /api/cache,  *)
(* and cache-manager's saveToCache, which they call.  A task is one        *)
(* request or one preloadChapter call; pc is the await it is suspended at. *)
(*   kind     "stream" | "preload" | "save" (a bare saveToCache call)       *)
(*   data     the bytes a bare saveToCache call was given                  *)
(*   pref     user_settings.auto_preload of the requesting user            *)
(*   ino, pos the descriptor a writeFile or a read stream holds, and the   *)
(*            number of chunks it has written or read                      *)
(*   statLen  the size res.sendFile read from stat (Content-Length)        *)
(*   status, body   the response                                           *)
(*   path     history: the delivery path that began the response           *)
(*   wanted   history: when the response began, look-ahead was enabled and *)
(*            the next chapter existed and was not cached                  *)
(*   spawned  history: the request called preloadChapter                   *)
(*   closed   the client of the request has disconnected (res 'close')     *)
(*   closedAt history: the await the handler was at when it did            *)
(*   parent   history: the request whose look-ahead started this preload   *)
(*   failed   history: "fetch" or "decode" when that step of the task      *)
(*            failed (decode: decryptXM threw or returned zero bytes),     *)
(*            "stream" when the remote read stream failed while piping;    *)
(*            pc is then "open": head sent, response neither ended nor     *)
(*            destroyed                                                    *)
(*   aborted  history: the task's remote read was aborted                  *)
(*   wrote    history: the task opened a cache file for writing            *)
(*   hit      history: the cache held the chapter when the request arrived *)
(*   used     history: what the request invoked of "catalog" (the chapters *)
(*            table), "storage" (the storage client), "pipeline" (decryptXM)*)
(***************************************************************************)
NewTask(kind, c, pc, pref) ==
    [kind |-> kind, ch |-> c, pc |-> pc, pref |-> pref, ino |-> 0, pos |-> 0,
     statLen |-> 0, status |-> 0, body |-> <<>>, path |-> "", wanted |-> FALSE,
     spawned |-> FALSE, hit |-> FALSE, used |-> {}, closed |-> FALSE, closedAt |-> "",
     parent |-> 0,
     failed |-> "", aborted |-> FALSE, wrote |-> FALSE, data |-> <<>>]

\* SELECT id FROM chapters WHERE book_id = ? AND chapter_index = ? (index + 1)
NextChapter(c) ==
    {n \in db : BookOf(n) = BookOf(c) /\ IndexOf(n) = IndexOf(c) + 1}

WantsPreload(c, pref) ==
    pref /\ \E n \in NextChapter(c) : ~isCached(n)

Finish(t, status, body) ==
    [tasks[t] EXCEPT !.pc = "done", !.status = status, !.body = body, !.ino = 0]

\* preloadChapter(chapterId, library) up to its first await: the tasks it adds
preloadChapter(c) ==
    IF c \notin db \/ (IsLocal(c) /\ ~IsXM(c)) THEN <<>>
    ELSE <<NewTask("preload", c, "fetch", FALSE)>>

\* lines 745-752: the look-ahead at the end of the handler of request t
PreloadTrigger(c, pref, t) ==
    IF WantsPreload(c, pref)
    THEN [i \in DOMAIN preloadChapter(CHOOSE n \in NextChapter(c) : TRUE) |->
             [preloadChapter(CHOOSE n \in NextChapter(c) : TRUE)[i] EXCEPT !.parent = t]]
    ELSE <<>>

\* task slots the requests in flight may still need for their look-ahead
Reserved ==
    Cardinality({t \in DOMAIN tasks : tasks[t].pc = "rstat" /\ tasks[t].pref})

\* a faulty variant of Route that tests the format before the cache: a
\* cached protected chapter is fetched and decoded again
RouteFormatFirst(c) ==
    IF c \in db /\ IsXM(c) THEN "xm"
    ELSE IF isCached(c) THEN "hit"
    ELSE IF c \notin db THEN "notfound"
    ELSE IF IsLocal(c) /\ ~IsXM(c) THEN "local"
    ELSE "remote"

\* the delivery path the handler takes, in the order of its tests (lines
\* 575, 595, 605, 620)
Route(c) ==
    IF isCached(c) THEN "hit"
    ELSE IF c \notin db THEN "notfound"
    ELSE IF IsLocal(c) /\ ~IsXM(c) THEN "local"
    ELSE IF IsXM(c) THEN "xm"
    ELSE "remote"

\* the request arrives and the handler runs to its first await or response
StreamRequest(c, pref) ==
    /\ Len(tasks) + Reserved + (IF ~IsXM(c) /\ ~IsLocal(c) /\ pref THEN 2 ELSE 1)
          <= MaxTasks
    /\ LET r   == Route(c)
           new == [NewTask("stream", c, "", pref) EXCEPT
                      !.hit = isCached(c),
                      !.used = IF r = "hit" THEN {} ELSE {"catalog"}]
           began(path) == [new EXCEPT !.path = path, !.wanted = WantsPreload(c, pref)]
       IN tasks' = Append(tasks,
            IF r = "hit" THEN [new EXCEPT !.pc = "hit_mime"]
            ELSE IF r = "notfound" THEN [new EXCEPT !.pc = "done", !.status = 404]
            ELSE IF r = "local" THEN [began("local") EXCEPT !.pc = "local_send"]
            ELSE IF r = "xm" THEN [new EXCEPT !.pc = "fetch"]
            ELSE [new EXCEPT !.pc = "rstat"])
    /\ UNCHANGED <<PipeVars, CacheVars, CatalogVars>>

\* await cacheManager.getMimeType(chapterId), then res.sendFile(cachePath)
GetMimeType(t) ==
    /\ tasks[t].pc \in {"hit_mime", "mime"}
    /\ tasks' = [tasks EXCEPT ![t].pc = "send_stat",
                              ![t].path = IF tasks[t].pc = "mime" THEN "decoded" ELSE "hit",
                              ![t].wanted = WantsPreload(tasks[t].ch, tasks[t].pref)]
    /\ UNCHANGED <<PipeVars, CacheVars, CatalogVars>>

\* res.sendFile: stat the path; the size becomes Content-Length
SendStat(t) ==
    /\ tasks[t].pc = "send_stat"
    /\ tasks' = [tasks EXCEPT ![t] =
            IF isCached(tasks[t].ch)
            THEN [@ EXCEPT !.pc = "send_open", !.status = 200,
                           !.statLen = Len(files[tasks[t].ch].body)]
            ELSE Finish(t, 404, <<>>)]
    /\ UNCHANGED <<PipeVars, CacheVars, CatalogVars>>

\* res.sendFile: the read stream opens the path
SendOpen(t) ==
    /\ tasks[t].pc = "send_open"
    /\ tasks' = [tasks EXCEPT ![t] =
            IF isCached(tasks[t].ch)
            THEN [@ EXCEPT !.pc = "send_read", !.ino = files[tasks[t].ch].ino, !.pos = 0]
            ELSE Finish(t, tasks[t].status, <<>>)]
    /\ UNCHANGED <<PipeVars, CacheVars, CatalogVars>>

\* res.sendFile: the read stream reads bytes pos .. statLen of the open file;
\* a file that has become shorter ends the stream early
SendRead(t) ==
    /\ tasks[t].pc = "send_read"
    /\ LET T    == tasks[t]
           have == InodeBody(T.ch, T.ino)
       IN IF T.pos < T.statLen /\ T.pos < Len(have)
          THEN /\ tasks' = [tasks EXCEPT ![t].pos = T.pos + 1,
                                         ![t].body = Append(T.body, have[T.pos + 1])]
               /\ UNCHANGED orphans
          ELSE /\ tasks' = [tasks EXCEPT ![t] = Finish(t, T.status, T.body)]
               /\ orphans' = CloseOrphans(t)
    /\ UNCHANGED <<PipeVars, files, clock, cleanupTimeout, armed, sweep, lastSweep, unlisted, CatalogVars>>

\* res.sendFile(fullPath) of a local plain source file
LocalSend(t) ==
    /\ tasks[t].pc = "local_send"
    /\ tasks' = [tasks EXCEPT ![t] = Finish(t, 200, SourceBody(tasks[t].ch))]
    /\ UNCHANGED <<PipeVars, CacheVars, CatalogVars>>

\* a faulty variant of AbortsFetch with one signal for the whole process:
\* any client's disconnect aborts every fetch in flight
AbortsFetchShared(t) ==
    \E u \in DOMAIN tasks : tasks[u].closed

\* a faulty variant of AbortsFetch that passes no signal to the fetch
AbortsFetchNever(t) == FALSE

\* the fetch of task t is given a signal that has fired: the stream handler
\* passes controller.signal (lines 626-632), which the WebDAV client honours
\* and the local client ignores; preloadChapter passes none (lines 778, 781)
AbortsFetch(t) ==
    tasks[t].kind = "stream" /\ tasks[t].closed /\ ~IsLocal(tasks[t].ch)

\* await client.getFileContents(chapter.path): returns the source or throws;
\* an aborted fetch throws
GetFileContents(t) ==
    /\ tasks[t].pc = "fetch"
    /\ \E ok \in BOOLEAN :
        /\ AbortsFetch(t) => ~ok
        /\ tasks' = [tasks EXCEPT ![t] =
            LET me == [tasks[t] EXCEPT !.used = @ \cup {"storage"}] IN
            IF ~ok
            THEN [me EXCEPT !.pc = "done", !.ino = 0, !.failed = "fetch",
                            !.aborted = AbortsFetch(t),
                            !.status = IF me.kind = "stream" THEN 500 ELSE 0]
            ELSE IF IsXM(me.ch) THEN [me EXCEPT !.pc = "decrypt"]
            ELSE [me EXCEPT !.pc = "w_open"]]
    /\ UNCHANGED <<PipeVars, CacheVars, CatalogVars>>

\* a faulty variant of StreamAccepts that tests the buffer for truthiness
\* only, as preloadChapter does
StreamAcceptsTruthy(out) == out.ok

\* the stream handler's test of the decoded buffer (lines 635-637)
StreamAccepts(out) == out.ok /\ out.len # 0

\* preloadChapter's test of the decoded buffer (line 784): if (data), and a
\* Buffer is truthy whatever its length
PreloadAccepts(out) == out.ok

\* await decryptXM(content)
Decrypt(t) ==
    /\ tasks[t].pc = "decrypt"
    /\ LET out == decryptXM(AssetOf(tasks[t].ch))
           me  == [tasks[t] EXCEPT
                      !.used = @ \cup {"pipeline"},
                      !.failed = IF ~out.ok \/ out.len = 0 THEN "decode" ELSE @]
       IN tasks' = [tasks EXCEPT ![t] =
            IF me.kind = "stream"
            THEN IF StreamAccepts(out) THEN [me EXCEPT !.pc = "w_open"]
                 ELSE [me EXCEPT !.pc = "done", !.status = 500, !.ino = 0]
            ELSE IF PreloadAccepts(out) THEN [me EXCEPT !.pc = "w_open"]
                 ELSE [me EXCEPT !.pc = "done", !.ino = 0]]
    /\ UNCHANGED <<PipeVars, CacheVars, CatalogVars>>

\* the bytes task t hands to saveToCache
TaskData(t) ==
    IF tasks[t].kind = "save" THEN tasks[t].data ELSE DataOf(tasks[t].ch)

\* a faulty variant of OpenedForWrite that opens without truncating (flag
\* 'r+'): what the file held stays under what is written
OpenedKeeping(body) == body

\* the content of a file just opened with flag 'w': nothing
OpenedForWrite(body) == <<>>

\* cacheManager.saveToCache(chapterId, data), as a call of its own, up to
\* the await of writeFile
saveToCache(c, data) ==
    /\ Len(tasks) < MaxTasks
    /\ tasks' = Append(tasks, [NewTask("save", c, "w_open", FALSE) EXCEPT !.data = data])
    /\ UNCHANGED <<PipeVars, CacheVars, CatalogVars>>

NoteWrite == sweep' = IF sweep.pc = "idle" THEN sweep ELSE [sweep EXCEPT !.written = TRUE]

\* saveToCache: fsPromises.writeFile opens the path with flag 'w', which
\* creates the file or truncates the one that is there
WriteOpen(t) ==
    /\ tasks[t].pc = "w_open"
    /\ LET c   == tasks[t].ch
           ino == IF isCached(c) THEN files[c].ino ELSE clock
       IN /\ files' = [files EXCEPT ![c] = [ino |-> ino,
                                            body |-> OpenedForWrite(files[c].body),
                                            mtime |-> clock]]
          /\ tasks' = [tasks EXCEPT ![t].pc = "w_chunk", ![t].ino = ino, ![t].pos = 0,
                                    ![t].wrote = TRUE]
    /\ clock' = clock + 1
    /\ NoteWrite
    /\ UNCHANGED <<PipeVars, orphans, cleanupTimeout, armed, lastSweep, unlisted, CatalogVars>>

\* what scheduleCleanup() leaves in cleanupTimeout: a handle that is set
\* stays (if (cleanupTimeout) return), otherwise a timer is armed
scheduleCleanup == IF cleanupTimeout THEN cleanupTimeout ELSE TRUE

\* a faulty variant of setTimeoutCalls that tests whether a sweep is running
\* in place of the handle: a write arms a timer while another is pending
setTimeoutCallsWhileIdle == IF sweep.pc # "idle" THEN 0 ELSE 1

\* the setTimeout calls one scheduleCleanup() makes: none when the handle is
\* set (if (cleanupTimeout) return), else one
setTimeoutCalls == IF cleanupTimeout THEN 0 ELSE 1

\* saveToCache: writeFile writes the next chunk at the descriptor's offset;
\* after the last one it closes, and saveToCache calls scheduleCleanup()
WriteChunk(t) ==
    /\ tasks[t].pc = "w_chunk"
    /\ LET T    == tasks[t]
           c    == T.ch
           last == T.pos >= Len(TaskData(t))
       IN IF ~last
          THEN /\ IF files[c].ino = T.ino
                  THEN /\ files' = [files EXCEPT ![c].body = WriteAt(@, TaskData(t), T.pos + 1),
                                                 ![c].mtime = clock]
                       /\ UNCHANGED orphans
                  ELSE /\ orphans' = IF T.ino \in DOMAIN orphans
                                     THEN [orphans EXCEPT ![T.ino] =
                                                       WriteAt(@, TaskData(t), T.pos + 1)]
                                     ELSE orphans
                       /\ UNCHANGED files
               /\ tasks' = [tasks EXCEPT ![t].pos = T.pos + 1]
               /\ clock' = clock + 1
               /\ NoteWrite
               /\ UNCHANGED <<cleanupTimeout, armed, unlisted>>
          ELSE /\ orphans' = CloseOrphans(t)
               /\ cleanupTimeout' = scheduleCleanup
               /\ armed' = armed + setTimeoutCalls
               /\ unlisted' = unlisted \cup {c}
               /\ tasks' = [tasks EXCEPT ![t] =
                      IF T.kind = "stream"
                      THEN [@ EXCEPT !.pc = "mime", !.ino = 0]
                      ELSE Finish(t, 0, <<>>)]
               /\ UNCHANGED <<files, clock, sweep>>
    /\ UNCHANGED <<PipeVars, lastSweep, CatalogVars>>

\* await client.stat(chapter.path) of a remote plain file, res.writeHead(200)
\* and stream.pipe(res); or stat throws and the handler answers 500.  Either
\* way the handler goes on to the look-ahead.
RemoteStat(t) ==
    /\ tasks[t].pc = "rstat"
    /\ \E ok \in BOOLEAN :
        LET T  == [tasks[t] EXCEPT !.used = @ \cup {"storage"}]
            me == IF ok
                  THEN [T EXCEPT !.pc = "pipe", !.status = 200, !.path = "remote",
                                 !.wanted = WantsPreload(T.ch, T.pref)]
                  ELSE [T EXCEPT !.pc = "done", !.status = 500, !.ino = 0]
            pl == PreloadTrigger(T.ch, T.pref, t)
        IN tasks' = [tasks EXCEPT ![t] = [me EXCEPT !.spawned = WantsPreload(T.ch, T.pref)]]
                    \o pl
    /\ UNCHANGED <<PipeVars, CacheVars, CatalogVars>>

\* the remote read stream is piped into the response to its end, or is
\* destroyed by the listener of res 'close' (lines 698-703, 724-728).  The
\* listener is added after the await of client.stat: a 'close' emitted
\* during that await is not heard, and the stream into the closed response
\* stalls without being destroyed.
RemotePipe(t) ==
    /\ tasks[t].pc = "pipe"
    /\ tasks' = [tasks EXCEPT ![t] =
            IF tasks[t].closed
            THEN [Finish(t, 200, <<>>) EXCEPT !.aborted = (tasks[t].closedAt = "pipe")]
            ELSE Finish(t, 200, SourceBody(tasks[t].ch))]
    /\ UNCHANGED <<PipeVars, CacheVars, CatalogVars>>

\* the remote read stream emits 'error' after the head was written (lines
\* 704-709, 730-735): res.headersSent is true, so the listener only logs;
\* pipe() does not end its destination when the source errors, and nothing
\* else calls res.end() or res.destroy(): the response stays open
RemoteReadFails(t) ==
    /\ tasks[t].pc = "pipe"
    /\ ~tasks[t].closed
    /\ tasks' = [tasks EXCEPT ![t].pc = "open", ![t].failed = "stream"]
    /\ UNCHANGED <<PipeVars, CacheVars, CatalogVars>>

\* the client gives up on a response left open: res emits 'close'
DisconnectOpen(t) ==
    /\ tasks[t].pc = "open"
    /\ tasks' = [tasks EXCEPT ![t] =
            [Finish(t, 200, <<>>) EXCEPT !.closed = TRUE, !.closedAt = "open"]]
    /\ UNCHANGED <<PipeVars, CacheVars, CatalogVars>>

\* the client of request t disconnects while the handler waits for the
\* storage or the pipeline: res emits 'close'
Disconnect(t) ==
    /\ tasks[t].kind = "stream"
    /\ tasks[t].pc \in {"fetch", "decrypt", "rstat", "pipe"}
    /\ ~tasks[t].closed
    /\ tasks' = [tasks EXCEPT ![t].closed = TRUE, ![t].closedAt = tasks[t].pc]
    /\ UNCHANGED <<PipeVars, CacheVars, CatalogVars>>

\* POST /api/cache/:chapterId
CacheRoute(c) ==
    /\ Len(tasks) + Reserved + 1 <= MaxTasks
    /\ ~isCached(c)
    /\ c \in db
    /\ preloadChapter(c) # <<>>
    /\ tasks' = tasks \o preloadChapter(c)
    /\ UNCHANGED <<PipeVars, CacheVars, CatalogVars>>

\* decryptXM applied to the asset under check
RunDecryptXM ==
    /\ pipe.err = "NotRun"
    /\ pipe' = decryptXM(asset)
    /\ UNCHANGED <<RangeVars, asset, wasmInstance, instances, calls, memory, CacheVars, tasks, CatalogVars>>

(***************************************************************************)
(* The remote plain branch of GET /api/stream/:chapterId (lines 660-736):  *)
(* what it answers and what it asks of the storage client, as a function   *)
(* of stat.size and of the Range header.                                   *)
(*                                                                         *)
(* The header is "bytes=" followed by parts separated by "-"; a part is    *)
(* empty (or missing), digits, or other text.  A number is a record so     *)
(* that NaN, which parseInt returns for a part without leading digits, is  *)
(* a value of its own.                                                     *)
(***************************************************************************)
MaxTotal == 3           \* largest stat.size; offsets go one beyond it

Num(n) == [nan |-> FALSE, n |-> n]
NaN == [nan |-> TRUE, n |-> 0]

Part(kind, n) == [kind |-> kind, n |-> n]
Parts == {Part("empty", 0), Part("text", 0)} \cup {Part("num", n) : n \in 0..(MaxTotal + 1)}

NoRange == [given |-> FALSE, first |-> Part("empty", 0), second |-> Part("empty", 0)]
RangeHeaders == {NoRange} \cup [given : {TRUE}, first : Parts, second : Parts]

\* parseInt(part, 10)
parseInt(p) == IF p.kind = "num" THEN Num(p.n) ELSE NaN

\* a faulty variant of GeNum that lets the start equal the size
GtNum(a, b) == ~a.nan /\ ~b.nan /\ a.n > b.n

\* a >= b on numbers: false when either is NaN
GeNum(a, b) == ~a.nan /\ ~b.nan /\ a.n >= b.n

\* a faulty variant of DefaultEnd that is one too large
DefaultEndIsSize(fileSize) == Num(fileSize)

\* the end taken when the header gives none: fileSize - 1 (line 673)
DefaultEnd(fileSize) == Num(fileSize - 1)

\* (end - start) + 1
Chunksize(start, end) ==
    IF start.nan \/ end.nan THEN NaN ELSE Num((end.n - start.n) + 1)

NoRead == [kind |-> "none", start |-> NaN, end |-> NaN]

NoResponse ==
    [status |-> 0, star |-> FALSE, start |-> NaN, end |-> NaN, total |-> 0,
     length |-> NaN, body |-> "none", read |-> NoRead]

\* the response head and body, and the createReadStream call, for a file of
\* fileSize bytes and Range header h
RemotePlain(fileSize, h) ==
    LET start == parseInt(h.first)
        end   == IF h.second.kind # "empty" THEN parseInt(h.second)
                 ELSE DefaultEnd(fileSize)
    IN  IF ~h.given
        THEN [NoResponse EXCEPT !.status = 200, !.length = Num(fileSize),
                                !.body = "stream", !.read.kind = "full"]
        ELSE IF GeNum(start, Num(fileSize))
        \* res.status(416).send('Requested range not satisfiable'): a text of
        \* 31 characters, whose length Express puts in Content-Length
        THEN [NoResponse EXCEPT !.status = 416, !.star = TRUE, !.total = fileSize,
                                !.length = Num(31), !.body = "text"]
        ELSE [NoResponse EXCEPT !.status = 206, !.start = start, !.end = end,
                                !.total = fileSize,
                                !.length = Chunksize(start, end), !.body = "stream",
                                !.read = [kind |-> "range", start |-> start,
                                          end |-> end]]

RangeIdle == rangeReq = [total |-> 0, header |-> NoRange] /\ rangeResp = NoResponse

\* the branch answers the request under check
RunRemotePlain ==
    /\ rangeResp = NoResponse
    /\ rangeResp' = RemotePlain(rangeReq.total, rangeReq.header)
    /\ UNCHANGED <<asset, pipe, wasmInstance, instances, calls, memory, rangeReq, CacheVars,
                   tasks, CatalogVars>>

(***************************************************************************)
(* Specifications                                                          *)
(***************************************************************************)
EmptyDir == [c \in Chapters |-> NoFile]

\* the process has just started: no timer, no sweep, no request
Started ==
    /\ orphans = <<>>
    /\ cleanupTimeout = FALSE
    /\ armed = 0
    /\ sweep = IdleSweep
    /\ lastSweep = NoSweep
    /\ unlisted = {}
    /\ tasks = <<>>
    /\ db = Chapters
    /\ removal = NoRemoval

PipeIdle == asset = GoodAsset /\ pipe = NoResult /\ NoWasm /\ RangeIdle

\* The cache directory outlives the process: it starts with what earlier runs
\* left.  n ordinary files, with or without the two large ones; the mtimes
\* ascend with the chapter id, descend, or are mixed with ties.
Mtime(order, c) ==
    IF order = "asc" THEN c
    ELSE IF order = "desc" THEN NChapters + 1 - c
    ELSE ((c * 7) % 5) + 1

InitCache ==
    /\ PipeIdle
    /\ orphans = <<>>
    /\ sweep = IdleSweep
    /\ lastSweep = NoSweep
    /\ tasks = <<>>
    /\ db = Chapters
    /\ removal = NoRemoval
    /\ clock = NChapters + 1
    /\ \E n \in (MAX_FILES - 1)..(MAX_FILES + ExtraFiles), large \in SUBSET {7, 8},
          order \in {"asc", "desc", "mixed"} :
        files = [c \in Chapters |->
                    IF c \in large \/ (c \in Regulars /\ c <= Cardinality(Specials) + n)
                    THEN [ino |-> c, body |-> FullBody, mtime |-> Mtime(order, c)]
                    ELSE NoFile]
    \* the write of one of the files has just armed the timer
    /\ cleanupTimeout = TRUE
    /\ armed = 1
    /\ unlisted = {CHOOSE c \in Chapters : isCached(c)}

\* Nothing is armed, running or in flight: without a new request nothing
\* happens any more.
Quiescent ==
    /\ ~cleanupTimeout
    /\ sweep.pc = "idle"
    /\ \A t \in DOMAIN tasks : ~Active(t)

\* chapters the cache is asked to preload
CacheWrites == {1, 7}

NextCache ==
    \/ TimerFires
    \/ SweepStats
    \/ SweepUnlinks
    \/ \E c \in CacheWrites :
        /\ Len(tasks) < MaxCacheWrites
        \* the first preload arrives at any time, a later one once the cache
        \* has gone quiet
        /\ tasks = <<>> \/ Quiescent
        /\ CacheRoute(c)
    \/ \E t \in DOMAIN tasks : GetFileContents(t)
    \/ \E t \in DOMAIN tasks : Decrypt(t)
    \/ \E t \in DOMAIN tasks : WriteOpen(t)
    \/ \E t \in DOMAIN tasks : WriteChunk(t)

SpecCache == InitCache /\ [][NextCache]_vars

\* chapters removed upstream while the cache is swept: the two oldest or the
\* two newest ordinary files, and the large ones
Removals == {7, 8, 9, 10}

\* the sweep and the deletions of single files (the scanner's cleanup and
\* DELETE /api/books/:id call deleteChapterCache), no write
NextEvict ==
    \/ TimerFires
    \/ SweepStats
    \/ SweepUnlinks
    \/ \E c \in Removals : deleteChapterCache(c)

SpecEvict == InitCache /\ [][NextEvict]_vars

\* an empty cache directory and the chapters of books 1 and 2
InitStream ==
    /\ PipeIdle
    /\ Started
    /\ clock = 1
    /\ files = EmptyDir

StreamChapters == 1..6

NextStream ==
    \/ \E c \in StreamChapters, pref \in BOOLEAN : StreamRequest(c, pref)
    \/ \E c \in StreamChapters : CacheRoute(c)
    \/ \E t \in DOMAIN tasks : GetMimeType(t)
    \/ \E t \in DOMAIN tasks : SendStat(t)
    \/ \E t \in DOMAIN tasks : SendOpen(t)
    \/ \E t \in DOMAIN tasks : SendRead(t)
    \/ \E t \in DOMAIN tasks : LocalSend(t)
    \/ \E t \in DOMAIN tasks : GetFileContents(t)
    \/ \E t \in DOMAIN tasks : Decrypt(t)
    \/ \E t \in DOMAIN tasks : WriteOpen(t)
    \/ \E t \in DOMAIN tasks : WriteChunk(t)
    \/ \E t \in DOMAIN tasks : RemoteStat(t)
    \/ \E t \in DOMAIN tasks : RemotePipe(t)

SpecStream == InitStream /\ [][NextStream]_vars

\* One client playing: a request comes once the one before and its look-ahead
\* are over, and the client may disconnect from a request in flight; the
\* look-ahead a request starts runs beside it.  The session may open with a
\* POST /api/cache.
NextServe ==
    \/ \E c \in StreamChapters, pref \in BOOLEAN :
        /\ \A t \in DOMAIN tasks : ~Active(t)
        /\ StreamRequest(c, pref)
    \/ \E c \in StreamChapters :
        /\ tasks = <<>>
        /\ CacheRoute(c)
    \/ \E t \in DOMAIN tasks : Disconnect(t)
    \/ \E t \in DOMAIN tasks : GetMimeType(t)
    \/ \E t \in DOMAIN tasks : SendStat(t)
    \/ \E t \in DOMAIN tasks : SendOpen(t)
    \/ \E t \in DOMAIN tasks : SendRead(t)
    \/ \E t \in DOMAIN tasks : LocalSend(t)
    \/ \E t \in DOMAIN tasks : GetFileContents(t)
    \/ \E t \in DOMAIN tasks : Decrypt(t)
    \/ \E t \in DOMAIN tasks : WriteOpen(t)
    \/ \E t \in DOMAIN tasks : WriteChunk(t)
    \/ \E t \in DOMAIN tasks : RemoteStat(t)
    \/ \E t \in DOMAIN tasks : RemotePipe(t)

SpecServe == InitStream /\ [][NextServe]_vars

\* books of the two libraries the requests are for
StreamBooks == {1, 2}

\* nothing has been removed from the catalog and no removal is under way
Intact == db = Chapters /\ removal = NoRemoval

\* chapters a rescan finds missing: a remote and a local one
Dropped == {1, 6}

\* Requests and preloads of one client while a book, a chapter or a library
\* is removed from the catalog.  A request comes once the one before is
\* over; the removal, one in a run, runs beside the request or preload in
\* flight.
NextCatalog ==
    \/ \E c \in StreamChapters, pref \in BOOLEAN :
        /\ \A t \in DOMAIN tasks : ~Active(t)
        /\ StreamRequest(c, pref)
    \/ \E c \in StreamChapters :
        /\ tasks = <<>>
        /\ CacheRoute(c)
    \/ \E b \in StreamBooks : Intact /\ DeleteBookBegins(b)
    \/ \E c \in Dropped : Intact /\ RescanDropsChapter(c)
    \/ RemovalClears
    \/ RemovalEnds
    \/ \E l \in {1, 2} : Intact /\ DeleteLibrary(l)
    \/ \E t \in DOMAIN tasks : GetMimeType(t)
    \/ \E t \in DOMAIN tasks : SendStat(t)
    \/ \E t \in DOMAIN tasks : SendOpen(t)
    \/ \E t \in DOMAIN tasks : SendRead(t)
    \/ \E t \in DOMAIN tasks : LocalSend(t)
    \/ \E t \in DOMAIN tasks : GetFileContents(t)
    \/ \E t \in DOMAIN tasks : Decrypt(t)
    \/ \E t \in DOMAIN tasks : WriteOpen(t)
    \/ \E t \in DOMAIN tasks : WriteChunk(t)
    \/ \E t \in DOMAIN tasks : RemoteStat(t)
    \/ \E t \in DOMAIN tasks : RemotePipe(t)

SpecCatalog == InitStream /\ [][NextCatalog]_vars

\* chapters of the sessions followed to their end: a remote .xm, a remote
\* plain and a local plain one
LiveChapters == {1, 3, 5}

\* a step of the server on task t: the continuation of an await or the end
\* of a stream
ServerStep(t) ==
    \/ GetMimeType(t)
    \/ SendStat(t)
    \/ SendOpen(t)
    \/ SendRead(t)
    \/ LocalSend(t)
    \/ GetFileContents(t)
    \/ Decrypt(t)
    \/ WriteOpen(t)
    \/ WriteChunk(t)
    \/ RemoteStat(t)
    \/ RemotePipe(t)

\* The sessions of one client, with the failures of the remote read stream.
\* The event loop runs every continuation that is ready, so the server's
\* steps are weakly fair; requests, disconnects and failures of the storage
\* are the environment's and happen or not.
NextLive ==
    \/ \E c \in LiveChapters, pref \in BOOLEAN :
        /\ \A t \in DOMAIN tasks : ~Active(t)
        /\ StreamRequest(c, pref)
    \/ \E t \in DOMAIN tasks : ServerStep(t)
    \/ \E t \in DOMAIN tasks : RemoteReadFails(t)
    \/ \E t \in DOMAIN tasks : Disconnect(t)
    \/ \E t \in DOMAIN tasks : DisconnectOpen(t)

SpecLive ==
    /\ InitStream
    /\ [][NextLive]_vars
    /\ WF_vars(\E t \in DOMAIN tasks : ServerStep(t))

\* ids and contents of the bare saveToCache calls: every content of up to
\* NChunks chunks of two kinds
SaveChapters == {1, 2}
SaveData == UNION {[1..n -> {1, 2}] : n \in 0..NChunks}

\* The cache written through saveToCache alone: a write of an id begins once
\* the earlier writes of that id are over, writes of different ids overlap.
NextWrite ==
    \/ \E c \in SaveChapters, data \in SaveData :
        /\ \A t \in DOMAIN tasks : tasks[t].ch = c => ~Active(t)
        /\ saveToCache(c, data)
    \/ \E t \in DOMAIN tasks : WriteOpen(t)
    \/ \E t \in DOMAIN tasks : WriteChunk(t)

SpecWrite == InitStream /\ [][NextWrite]_vars

InitPipe ==
    /\ asset \in Assets
    /\ pipe = NoResult
    /\ NoWasm
    /\ RangeIdle
    /\ Started
    /\ clock = 1
    /\ files = EmptyDir

SpecPipe == InitPipe /\ [][RunDecryptXM]_vars

InitResolve ==
    /\ asset \in TagAssets
    /\ pipe = NoResult
    /\ NoWasm
    /\ RangeIdle
    /\ Started
    /\ clock = 1
    /\ files = EmptyDir

SpecResolve == InitResolve /\ [][RunDecryptXM]_vars

InitRange ==
    /\ asset = GoodAsset
    /\ pipe = NoResult
    /\ NoWasm
    /\ rangeReq \in [total : 0..MaxTotal, header : RangeHeaders]
    /\ rangeResp = NoResponse
    /\ Started
    /\ clock = 1
    /\ files = EmptyDir

SpecRange == InitRange /\ [][RunRemotePlain]_vars

\* pipeline invocations of one process that reach the transform stage in any
\* interleaving of their awaits
NextWasm ==
    \/ \E i \in WasmCalls, input \in WasmInputs : WasmCall(i, input)
    \/ \E i \in WasmCalls : WasmInstantiated(i)
    \/ \E i \in WasmCalls : WasmAssign(i)
    \/ \E i \in WasmCalls : WasmRun(i)

SpecWasm == InitStream /\ [][NextWasm]_vars

(***************************************************************************)
(* Properties of the eviction sweep (SpecCache)                            *)
(***************************************************************************)
Names(s) == {s[i].name : i \in 1..Len(s)}

\* the last sweep returned and no cache write ran while it did
CleanSweep == lastSweep.done /\ ~lastSweep.written

NoOversize == \A i \in 1..Len(lastSweep.details) : lastSweep.details[i].size <= MAX_SIZE_BYTES

\* C1: after a completed sweep with no concurrent cache write, over files of
\* which none alone exceeds the size cap, the directory holds at most
\* MAX_FILES files and at most MAX_SIZE_BYTES in total.
C1_EvictionCaps ==
    (CleanSweep /\ NoOversize) =>
        /\ Cardinality(lastSweep.after) <= MAX_FILES
        /\ lastSweep.afterSize <= MAX_SIZE_BYTES

\* a clean sweep that found both caps exceeded
C1_Witness ==
    /\ CleanSweep /\ NoOversize
    /\ Len(lastSweep.details) > MAX_FILES
    /\ SumSize(lastSweep.details) > MAX_SIZE_BYTES
    /\ lastSweep.after # {}

\* C2, as claimed: a file that alone exceeds the size cap is retained by the
\* sweep, which leaves the cache non-empty and over the size cap.
C2_OversizeRetained ==
    lastSweep.done =>
        \A i \in 1..Len(lastSweep.details) :
            lastSweep.details[i].size > MAX_SIZE_BYTES =>
                /\ lastSweep.details[i].name \notin Names(lastSweep.toDelete)
                /\ ~lastSweep.written =>
                      /\ lastSweep.details[i].name \in lastSweep.after
                      /\ lastSweep.afterSize > MAX_SIZE_BYTES

\* C2, amended: a file that alone exceeds the size cap is deleted by the
\* sweep, together with every file listed before it in oldest-first order;
\* with no concurrent write the directory is left within the size cap
\* (possibly empty).
C2_OversizeDeleted ==
    lastSweep.done =>
        \A i \in 1..Len(lastSweep.details) :
            lastSweep.details[i].size > MAX_SIZE_BYTES =>
                /\ \A j \in 1..i : lastSweep.details[j].name \in Names(lastSweep.toDelete)
                /\ ~lastSweep.written =>
                      /\ lastSweep.details[i].name \notin lastSweep.after
                      /\ lastSweep.afterSize <= MAX_SIZE_BYTES

\* a clean sweep that met an oversize file and left the directory empty
C2_Witness ==
    /\ CleanSweep
    /\ ~NoOversize
    /\ lastSweep.after = {}

RECURSIVE MaxMtime(_)
MaxMtime(s) == IF s = <<>> THEN 0 ELSE Max(Head(s).mtime, MaxMtime(Tail(s)))

\* C9: the sweep deletes a prefix of the files in oldest-first order: no
\* file is deleted while a strictly older one is kept; over MAX_FILES files,
\* at least the excess is deleted; a file beyond the excess is deleted only
\* if the files not yet deleted, it included, exceed the size cap (sizes are
\* not negative, so it is enough to say so of the last file deleted); what is
\* kept is within the size cap; with both caps met nothing is deleted; and
\* with no concurrent write the directory is left with exactly the kept files.
C9_OldestFirstPrefix ==
    LET D      == lastSweep.details
        T      == lastSweep.toDelete
        excess == Max(Len(D) - MAX_FILES, 0)
    IN  lastSweep.done =>
        /\ \A j \in 1..Len(D) :
              D[j].name \notin Names(T) => MaxMtime(T) <= D[j].mtime
        /\ Names(T) \subseteq Names(D)
        /\ Cardinality(Names(T)) = Len(T)
        /\ Len(T) >= excess
        /\ Len(T) > excess =>
              SumSize(D) - SumSize(SubSeq(T, 1, Len(T) - 1)) > MAX_SIZE_BYTES
        /\ SumSize(D) - SumSize(T) <= MAX_SIZE_BYTES
        /\ (Len(D) <= MAX_FILES /\ SumSize(D) <= MAX_SIZE_BYTES) => T = <<>>
        /\ ~lastSweep.written => lastSweep.after = Names(D) \ Names(T)

\* a sweep that deleted by count and then by size, and kept some files
C9_Witness ==
    /\ CleanSweep
    /\ Len(lastSweep.details) > MAX_FILES
    /\ Len(lastSweep.toDelete) > Len(lastSweep.details) - MAX_FILES
    /\ lastSweep.after # {}

\* C10: after any cache write a sweep runs that lists the directory after the
\* write completed.  Stated on the states in which nothing more will happen:
\* there, no file is left whose write completed after the last listing.
C10_WriteIsSwept ==
    Quiescent => \A c \in unlisted : ~isCached(c)

\* timers armed and sweeps running
Pending == armed + (IF sweep.pc # "idle" THEN 1 ELSE 0)

\* C11: at any time at most one eviction timer or sweep is pending or
\* running, and the handle is set exactly then: a write that completes
\* meanwhile arms no further timer, and no timer is left to fire while a
\* sweep runs, so two sweeps never overlap.
C11_Debounced ==
    /\ Pending <= 1
    /\ cleanupTimeout <=> (Pending = 1)

\* two writes have completed since the last listing and one timer is pending
C11_Witness ==
    /\ Cardinality(unlisted) >= 2
    /\ armed = 1
    /\ sweep.pc = "idle"

\* C12: a sweep tolerates files that disappear while it runs: it ends by
\* returning, not by throwing, and what it leaves is within the count cap.
C12_SweepTolerates ==
    (lastSweep.done \/ lastSweep.threw) =>
        /\ lastSweep.done
        /\ Cardinality(lastSweep.after) <= MAX_FILES

(***************************************************************************)
(* Properties of the delivery layer (SpecStream)                           *)
(***************************************************************************)
Streams == {t \in DOMAIN tasks : tasks[t].kind = "stream"}

Answered(t) == tasks[t].pc = "done" /\ tasks[t].status = 200

\* C3: two requests for the same protected chapter that both miss the cache
\* and both decode it are each answered with the complete decoded audio: no
\* 200 response carries a truncated or partially rewritten cache file.
C3_ConcurrentMissesCorrect ==
    \A t1, t2 \in Streams :
        (/\ t1 # t2
         /\ tasks[t1].ch = tasks[t2].ch
         /\ tasks[t1].path = "decoded" /\ tasks[t2].path = "decoded"
         /\ Answered(t1))
            => tasks[t1].body = DataOf(tasks[t1].ch)

\* C4: a request that began a response on any delivery path while look-ahead
\* was enabled and the next chapter existed uncached has, when its handler is
\* through, called preloadChapter for that chapter.
C4_PreloadOnEveryPath ==
    \A t \in Streams :
        (tasks[t].pc = "done" /\ tasks[t].path # "" /\ tasks[t].wanted)
            => tasks[t].spawned

\* chapters whose pipeline returns, without an error, zero bytes
EmptyDecoded ==
    {c \in Chapters : IsXM(c) /\ decryptXM(AssetOf(c)).ok /\ decryptXM(AssetOf(c)).len = 0}

\* C5: a pipeline result of zero bytes is a failure on the foreground and on
\* the preload path: no cache file is written for that chapter, and no
\* request for it is answered 200.
C5_EmptyOutputNeverCached ==
    /\ \A c \in EmptyDecoded : ~isCached(c)
    /\ \A t \in Streams : tasks[t].ch \in EmptyDecoded => tasks[t].status # 200

(***************************************************************************)
(* Properties of the pipeline (SpecPipe)                                   *)
(***************************************************************************)
Ran == pipe.err # "NotRun"

\* the cipher calls of the run, in order
CipherCalls == SelectSeq(pipe.trace, LAMBDA e : e.stage = "cipher")
TransformCalls == SelectSeq(pipe.trace, LAMBDA e : e.stage = "transform")

\* C6: a segment of at least one block whose length is no multiple of the
\* block size does not fail in the cipher stage: a cipher call returns
\* a non-empty buffer, the segment being the full declared one or a chunk.
C6_PaddingFallbackSucceeds ==
    (Ran /\ Truthy(pipe.iv) /\ pipe.encLen >= BLOCK /\ pipe.encLen % BLOCK # 0) =>
        /\ pipe.err # "Cipher"
        /\ \E i \in 1..Len(CipherCalls) : CipherCalls[i].ok /\ CipherCalls[i].len > 0

\* C7: the cipher stage first decrypts with padding validation, decrypts
\* without it if and only if the padded call threw, and fails with a cipher
\* error only after both calls threw.
C7_PaddedThenUnpadded ==
    (Ran /\ Len(CipherCalls) > 0) =>
        /\ CipherCalls[1].mode = "padded"
        /\ (\E i \in 1..Len(CipherCalls) : CipherCalls[i].mode = "unpadded")
              <=> (\E i \in 1..Len(CipherCalls) :
                      CipherCalls[i].mode = "padded" /\ ~CipherCalls[i].ok)
        /\ pipe.err = "Cipher" =>
              (Len(CipherCalls) = 2 /\ \A i \in 1..2 : ~CipherCalls[i].ok)

\* C8: the stages run in order and none is re-entered but for the cipher
\* stage's own fallback: the transform runs at most once, and no cipher call
\* follows a transform call.
C8_StagesInOrder ==
    Ran =>
        /\ Len(TransformCalls) <= 1
        /\ \A i, j \in 1..Len(pipe.trace) :
              (pipe.trace[i].stage = "transform" /\ pipe.trace[j].stage = "cipher")
                  => j < i


(***************************************************************************)
(* Claims about the delivery paths (SpecServe)                             *)
(***************************************************************************)
HitPcs == {"hit_mime", "send_stat", "send_open", "send_read", "done"}

Protected(c) == Ext(c) \in {".xm", ".XM"}

Raw(body) == \E i \in DOMAIN body : body[i] < 0

\* C14: a protected (.xm) chapter, local or remote, is never delivered raw:
\* no response for it takes the direct local or the remote stream path, no
\* response body and no cache file of it holds protected bytes, a 200 for it
\* is read from the cache file, and every task that wrote that file, request
\* or preload, ran the pipeline first.
C14_NeverServedRaw ==
    /\ \A t \in Streams :
          LET T == tasks[t] IN
          Protected(T.ch) =>
              /\ T.path \notin {"local", "remote"}
              /\ ~Raw(T.body)
              /\ T.status = 200 => T.path \in {"hit", "decoded"}
    /\ \A t \in DOMAIN tasks :
          Protected(tasks[t].ch) /\ tasks[t].wrote => "pipeline" \in tasks[t].used
    /\ \A c \in Chapters : Protected(c) /\ isCached(c) => ~Raw(files[c].body)

\* a protected chapter cached by a preload has been delivered decoded
C14_Witness ==
    \E t \in Streams, u \in DOMAIN tasks :
        /\ tasks[u].kind = "preload" /\ tasks[u].wrote
        /\ tasks[u].ch = tasks[t].ch
        /\ Protected(tasks[t].ch)
        /\ Answered(t)
        /\ tasks[t].body = FullBody

\* C15: a request whose foreground decode of a protected chapter fails, in
\* the fetch or in any stage of the pipeline or by an empty output, is
\* answered 500 with no audio, takes no delivery path and writes no cache
\* file.
C15_DecodeFailureIs500 ==
    \A t \in Streams :
        LET T == tasks[t] IN
        (IsXM(T.ch) /\ T.failed # "") =>
            /\ T.pc = "done"
            /\ T.status = 500
            /\ T.body = <<>>
            /\ T.path = ""
            /\ ~T.wrote

\* the request for the chapter that decodes to zero bytes has been refused,
\* and the chapter is not cached
C15_Witness ==
    \E t \in Streams :
        /\ tasks[t].failed = "decode"
        /\ decryptXM(AssetOf(tasks[t].ch)).ok
        /\ tasks[t].status = 500
        /\ ~isCached(tasks[t].ch)

\* C16: when the client disconnects during the fetch of a remote protected
\* chapter, the fetch is aborted, the pipeline is not run and the request
\* writes no cache file; when it disconnects during the stream of a remote
\* plain chapter, the stream is destroyed and delivers no more.
C16_DisconnectAbortsRead ==
    \A t \in Streams :
        LET T == tasks[t] IN
        /\ (T.closedAt = "fetch" /\ ~IsLocal(T.ch)) =>
              /\ T.pc \in {"fetch", "done"}
              /\ "pipeline" \notin T.used
              /\ ~T.wrote
              /\ T.pc = "done" => T.aborted /\ T.failed = "fetch" /\ T.body = <<>>
        /\ T.closedAt = "pipe" =>
              /\ T.pc \in {"pipe", "done"}
              /\ T.pc = "done" => T.aborted /\ T.body = <<>>

\* one request was left during its fetch and one during its stream, and both
\* reads have been aborted
C16_Witness ==
    \E t \in Streams, u \in Streams :
        /\ tasks[t].closedAt = "fetch" /\ ~IsLocal(tasks[t].ch)
        /\ tasks[t].pc = "done" /\ tasks[t].aborted
        /\ tasks[u].closedAt = "pipe"
        /\ tasks[u].pc = "done" /\ tasks[u].aborted

Preloads == {t \in DOMAIN tasks : tasks[t].kind = "preload"}

\* C17: a preload never observes a disconnect: it is never closed nor
\* aborted, whatever the client of the request that started it does, and
\* unless its own fetch or decode fails it ends with its cache file written.
C17_PreloadIgnoresDisconnect ==
    \A t \in Preloads :
        LET T == tasks[t] IN
        /\ ~T.closed
        /\ ~T.aborted
        /\ (T.pc = "done" /\ T.failed = "") => T.wrote /\ T.pos = Len(DataOf(T.ch))

\* the client left the request that started a preload, and the preload has
\* completed and its file is whole
C17_Witness ==
    \E t \in Preloads :
        /\ tasks[t].parent \in Streams
        /\ tasks[tasks[t].parent].closed
        /\ tasks[t].pc = "done"
        /\ tasks[t].wrote
        /\ files[tasks[t].ch].body = FullBody

(***************************************************************************)
(* Claims about the module instance (SpecWasm)                             *)
(***************************************************************************)
\* C18: the module is instantiated at most once per process, and all calls
\* that reach the transform use the same instance, also when several reach
\* it before the first instantiation has finished.
C18_SingleInstance ==
    /\ instances <= 1
    /\ \A i \in WasmCalls, j \in WasmCalls :
          (calls[i].inst # 0 /\ calls[j].inst # 0) => calls[i].inst = calls[j].inst

\* the calls that ran the transform
Transformed == {i \in WasmCalls : calls[i].pc = "done" /\ calls[i].input = "text"}

\* C30: the transform stage has no suspension point between allocating its
\* input buffers and reading the output slot: no state shows an instance's
\* memory holding the buffers or the result of a call that has not returned,
\* and every call that ran the transform read the result of its own call,
\* also when several calls share one instance.
C30_ReadsOwnResult ==
    /\ \A i \in Transformed : calls[i].got = i
    /\ \A k \in WasmCalls :
          /\ \A b \in Buffers : memory[k].data[b] # 0 => memory[k].data[b] \in Transformed
          /\ \A s \in Slots : memory[k].out[s] # 0 => memory[k].out[s] \in Transformed

\* two calls ran the transform on the same instance
C30_Witness ==
    \E i \in Transformed, j \in Transformed :
        /\ i # j
        /\ calls[i].inst = calls[j].inst
        /\ calls[i].got = i
        /\ calls[j].got = j

(***************************************************************************)
(* Claims about the tag resolution (SpecResolve)                           *)
(***************************************************************************)
\* neither the node-id3 tags nor the manual scan give an IV
NoCandidate == ~Truthy(asset.tagIv) /\ ~Truthy(ManualIv(asset))

MissingKey ==
    /\ pipe.err = "NoIV"
    /\ ~pipe.ok
    /\ pipe.len = 0
    /\ CipherCalls = <<>>
    /\ TransformCalls = <<>>

\* the run got as far as decryptAesSegment
CipherEntered == Ran /\ pipe.err \notin {"EmptyContent", "NoIV", "EmptySegment"}

NeverDefaulted ==
    CipherEntered =>
        /\ IvLen(pipe.iv) > 0
        /\ pipe.iv \in {asset.tagIv, ManualIv(asset)}
        /\ pipe.err # "IvMissing"

ZeroSize == asset.tagSize = 0 /\ ManualSize(asset) = 0 /\ Truthy(pipe.iv)

FallsBack ==
    /\ pipe.size = asset.avail
    /\ pipe.encLen = asset.avail
    /\ pipe.tail = 0
    /\ Len(CipherCalls) > 0
    /\ pipe.err # "EmptySegment"

\* C20 as stated: when both paths give size 0, the size becomes
\* content.length - headerSize, the segment is all that follows the header
\* with nothing trailing, and the run enters the cipher stage.
C20_ZeroSizeFallsBack ==
    (Ran /\ ZeroSize) => FallsBack

\* C20 amended: the same, provided at least one byte follows the header.
C20_ZeroSizeFallsBackOnData ==
    (Ran /\ ZeroSize /\ asset.avail > 0) => FallsBack

\* an asset without a size in either path, with a whole number of blocks
\* after its header, has been decrypted as one full segment
C20_Witness ==
    /\ Ran
    /\ ZeroSize
    /\ asset.avail = 2 * BLOCK
    /\ FallsBack
    /\ pipe.ok
    /\ CipherCalls[1].mode = "padded"

(***************************************************************************)
(* Claims about the assembled output (SpecPipe)                            *)
(***************************************************************************)
\* C21: on success the output is the transform's result followed by the
\* bytes of the asset from headerSize + size to its end: nothing of the
\* header, the trailing bytes as they lie in the asset, and nothing trailing
\* when the declared window reaches or passes the end.
C21_OutputIsSegmentThenTail ==
    (Ran /\ pipe.ok) =>
        LET total == asset.hdr + asset.avail
            after == asset.hdr + pipe.size
        IN  /\ pipe.len = pipe.segLen + pipe.tail
            /\ pipe.segLen = IF TransformCalls = <<>> THEN 0
                              ELSE TransformCalls[Len(TransformCalls)].len
            /\ IF after >= total
               THEN pipe.tail = 0
               ELSE /\ pipe.tailFrom = after
                    /\ pipe.tailFrom + pipe.tail = total

\* an asset with a header, a decoded segment and bytes after the window has
\* been assembled
C21_Witness ==
    /\ Ran
    /\ pipe.ok
    /\ asset.hdr > 0
    /\ pipe.segLen > 0
    /\ pipe.tail > 0
    /\ pipe.tailFrom = asset.hdr + asset.tagSize

(***************************************************************************)
(* Claims about the remote plain branch (SpecRange)                        *)
(***************************************************************************)
Responded == rangeResp # NoResponse

\* the header is bytes=0-
FromZero ==
    /\ rangeReq.header.given
    /\ rangeReq.header.first = Part("num", 0)
    /\ rangeReq.header.second = Part("empty", 0)

WholeAs206 ==
    /\ rangeResp.status = 206
    /\ rangeResp.start = Num(0)
    /\ rangeResp.end = Num(rangeReq.total - 1)
    /\ rangeResp.total = rangeReq.total
    /\ rangeResp.length = Num(rangeReq.total)
    /\ rangeResp.read = [kind |-> "range", start |-> Num(0),
                         end |-> Num(rangeReq.total - 1)]

WholeAs200 ==
    (Responded /\ ~rangeReq.header.given) =>
        /\ rangeResp.status = 200
        /\ rangeResp.length = Num(rangeReq.total)
        /\ rangeResp.read.kind = "full"

\* C22 as stated: for a file of total bytes, Range bytes=0- is answered 206
\* with Content-Range bytes 0-(total-1)/total, Content-Length total and a
\* read of bytes 0..total-1; no Range header is answered 200 with
\* Content-Length total.
C22_WholeRange ==
    /\ (Responded /\ FromZero) => WholeAs206
    /\ WholeAs200

\* C22 amended: the same for a file of at least one byte.
C22_WholeRangeOfNonEmpty ==
    /\ (Responded /\ FromZero /\ rangeReq.total >= 1) => WholeAs206
    /\ WholeAs200

\* bytes=0- on the largest file has been answered 206
C22_Witness ==
    /\ Responded
    /\ FromZero
    /\ rangeReq.total = MaxTotal
    /\ WholeAs206

\* the header names a start at or beyond the end of the file
StartBeyond ==
    /\ rangeReq.header.given
    /\ rangeReq.header.first.kind = "num"
    /\ rangeReq.header.first.n >= rangeReq.total

Unsatisfiable ==
    /\ rangeResp.status = 416
    /\ rangeResp.star
    /\ rangeResp.total = rangeReq.total
    /\ rangeResp.read.kind = "none"

\* C23 as stated: a range whose start is at or beyond the file's length is
\* answered 416 with Content-Range bytes */total and no body, and no read
\* stream is opened.
C23_StartBeyondIs416 ==
    (Responded /\ StartBeyond) => (Unsatisfiable /\ rangeResp.body = "none")

\* C23 amended: such a range is answered 416 with Content-Range bytes
\* */total and a short text in place of content, and no read stream is
\* opened.
C23_StartBeyondIs416WithText ==
    (Responded /\ StartBeyond) => (Unsatisfiable /\ rangeResp.body = "text")

\* a range that starts at the very end of a file of some bytes has been
\* refused
C23_Witness ==
    /\ Responded
    /\ rangeReq.total >= 1
    /\ rangeReq.header.given
    /\ rangeReq.header.first = Part("num", rangeReq.total)
    /\ Unsatisfiable

\* C29: every 206 has 0 <= start <= end <= total - 1 and Content-Length
\* end - start + 1, whatever the Range header: an end beyond the file, an
\* end before the start, a suffix form without a start.
C29_Every206WellFormed ==
    (Responded /\ rangeResp.status = 206) =>
        /\ ~rangeResp.start.nan
        /\ ~rangeResp.end.nan
        /\ ~rangeResp.length.nan
        /\ 0 <= rangeResp.start.n
        /\ rangeResp.start.n <= rangeResp.end.n
        /\ rangeResp.end.n <= rangeReq.total - 1
        /\ rangeResp.length.n = rangeResp.end.n - rangeResp.start.n + 1

(***************************************************************************)
(* Claims about removals from the catalog (SpecCatalog)                    *)
(***************************************************************************)
\* C24: once the deletion of a book has completed, no cache file exists
\* for any of its chapters, also when a request or preload for one of them
\* was in flight while the deletion ran.
C24_DeletedBookLeavesNoCache ==
    \A b \in removal.books :
        \A c \in Chapters : BookOf(c) = b => ~isCached(c)

\* C28: every cache file belongs to a chapter that has a row in the
\* catalog.
C28_CacheWithinCatalog ==
    \A c \in Chapters : isCached(c) => c \in db

(***************************************************************************)
(* Claims about saveToCache (SpecWrite)                                    *)
(***************************************************************************)
Saves == {t \in DOMAIN tasks : tasks[t].kind = "save"}

\* the write t has completed and no write of its id has begun since
LastCompleted(t) ==
    /\ tasks[t].pc = "done"
    /\ \A u \in Saves : (u > t) => tasks[u].ch # tasks[t].ch

\* C25: after a write of an id has completed and before a later write of
\* it, the id is cached and its file holds exactly the bytes written; so a
\* second write replaces the first one's content whole.
C25_WriteRoundTrip ==
    \A t \in Saves :
        LastCompleted(t) =>
            /\ isCached(tasks[t].ch)
            /\ files[tasks[t].ch].body = tasks[t].data

\* a second write of an id, shorter than the first and different from it,
\* has completed and the file holds its bytes
C25_Witness ==
    \E t \in Saves, u \in Saves :
        /\ t < u
        /\ tasks[t].ch = tasks[u].ch
        /\ tasks[t].pc = "done"
        /\ LastCompleted(u)
        /\ Len(tasks[t].data) > Len(tasks[u].data)
        /\ Len(tasks[u].data) > 0
        /\ tasks[u].data[1] # tasks[t].data[1]
        /\ files[tasks[u].ch].body = tasks[u].data

(***************************************************************************)
(* Claims about a hit during a write (SpecStream)                          *)
(***************************************************************************)
\* C26: a cache hit never observes a partially written file: a request that
\* found its chapter cached does not stream the file while a write of it is
\* incomplete, so what it delivers with a 200 is the whole content.
C26_HitNeverSeesPartial ==
    \A t \in Streams :
        /\ (tasks[t].hit /\ tasks[t].pc \in {"send_stat", "send_open", "send_read"}) =>
              ~\E u \in DOMAIN tasks :
                  /\ tasks[u].ch = tasks[t].ch
                  /\ tasks[u].pc = "w_chunk"
                  /\ tasks[u].pos < Len(TaskData(u))
        /\ (tasks[t].hit /\ Answered(t)) => tasks[t].body = DataOf(tasks[t].ch)

(***************************************************************************)
(* Claims about the end of a session (SpecLive)                            *)
(***************************************************************************)
\* C27: every stream session reaches a terminal state: its response is
\* completed, answered with an error, or closed by the client's disconnect;
\* a response whose remote read stream failed after the head was sent is
\* ended, not left open.
C27_EverySessionEnds ==
    \A i \in 1..MaxTasks :
        [](i \in DOMAIN tasks => <>(i \in DOMAIN tasks /\ tasks[i].pc = "done"))

=============================================================================
